---- MODULE Spec2Model ----
(***************************************************************************)
(* Model of the GTFS import commands of SimplyTransport                    *)
(* (src/SimplyTransport/cli.py): the static import `importgtfs` and the    *)
(* realtime import `importrealtime`, together with the collaborators they  *)
(* call (importer registry, static importers, realtime importer, event     *)
(* notifier), whose code is in SimplyTransport.lib / .domain.events.       *)
(*                                                                         *)
(* Python strings that the code computes on (file names, directory paths)  *)
(* are sequences of one-character strings, so that str.replace, str.split  *)
(* and concatenation are computed rather than assumed.                     *)
(***************************************************************************)
EXTENDS Integers, Sequences, FiniteSets, TLC

VARIABLES
    pc,                         \* position of the command being executed
    exc,                        \* the unhandled error that ended the command, or NoExc
    dir_option,                 \* importgtfs: the value of the -dir option, None when absent
    dir,                        \* importgtfs: local `dir`
    response,                   \* importgtfs: local `response`, Unanswered before the prompt
    dataset,                    \* importgtfs: local `dataset`
    idx,                        \* importgtfs: position of the for loop in files_to_import
    row_count,                  \* importgtfs: local `row_count` of the current file
    attributes_of_total_rows,   \* importgtfs: the per-file map of the run report
    total_time_taken,           \* importgtfs: local `total_time_taken` (hundredths of a second)
    file_start,                 \* importgtfs: local `file_start`
    finish,                     \* importgtfs: local `finish`, Unbound until line 162 ran
    clock,                      \* time.perf_counter(), in hundredths of a second
    present,                    \* file system: paths found to be files so far
    absent,                     \* file system: paths found not to be files so far
    registry,                   \* importer registry: file names found to have an importer so far
    unsupported,                \* importer registry: file names found to have none so far
    table,                      \* persistence layer: file name -> rows of its table
    events,                     \* event notifier: events recorded, oldest first
    run,                        \* number of importgtfs commands started so far
    calls,                      \* persistence operations invoked by the current command, in order
    attempted,                  \* files whose loop iteration began in the current command
    realtime_dataset,           \* importrealtime: local `realtime_dataset`
    data,                       \* importrealtime: local `data`, the decoded feed or None
    total_stop_times,           \* importrealtime: local `total_stop_times`
    total_trips,                \* importrealtime: local `total_trips`
    rt_stop_time,               \* persistence layer: rows of the RTStopTime table
    rt_trip,                    \* persistence layer: rows of the RTTrip table
    before                      \* the tables and the number of events when the current command started

vars == <<pc, exc, dir_option, dir, response, dataset, idx, row_count, attributes_of_total_rows,
          total_time_taken, file_start, finish, clock, present, absent,
          registry, unsupported, table, events, run, calls, attempted,
          realtime_dataset, data, total_stop_times, total_trips, rt_stop_time, rt_trip,
          before>>

\* what importgtfs neither reads nor writes
realtime_vars == <<realtime_dataset, data, total_stop_times, total_trips, rt_stop_time, rt_trip>>

\* what importrealtime neither reads nor writes
static_vars == <<dir_option, dir, response, dataset, idx, row_count, attributes_of_total_rows, total_time_taken,
                 file_start, finish, present, absent, registry, unsupported, table,
                 attempted>>

\* the environment, which no command changes except by looking at it
env == <<present, absent, registry, unsupported>>

----------------------------------------------------------------------------
(* Bounds of the model *)

\* largest number of data rows of a file
MaxRows == 2
\* longest time the import of one file takes (hundredths of a second)
MaxTick == 1
\* number of import commands run one after the other
MaxRuns == 2
\* largest number of files of the list the registry has no importer for
MaxUnsupported == 1
\* number of rows each table holds before the first command
OldRows == 1
\* largest number of entities of a realtime feed
MaxEntities == 2
\* largest number of stop-time updates of one trip update
MaxStopUpdates == 1

----------------------------------------------------------------------------
(* Strings *)

S_agency == <<"a","g","e","n","c","y">>
S_calendar == <<"c","a","l","e","n","d","a","r">>
S_calendar_dates == <<"c","a","l","e","n","d","a","r","_","d","a","t","e","s">>
S_routes == <<"r","o","u","t","e","s">>
S_stops == <<"s","t","o","p","s">>
S_trips == <<"t","r","i","p","s">>
S_stop_times == <<"s","t","o","p","_","t","i","m","e","s">>
S_shapes == <<"s","h","a","p","e","s">>
S_txt == <<".","t","x","t">>
S_TFI == <<"T","F","I">>

\* the list of cli.py:108-117
files_to_import ==
    << S_agency \o S_txt, S_calendar \o S_txt, S_calendar_dates \o S_txt,
       S_routes \o S_txt, S_stops \o S_txt, S_trips \o S_txt,
       S_stop_times \o S_txt, S_shapes \o S_txt >>

FileNames == { files_to_import[k] : k \in 1..Len(files_to_import) }

\* the default of cli.py:26, "./gtfs_data/TFI/"
DefaultDir ==
    <<".","/","g","t","f","s","_","d","a","t","a","/">> \o S_TFI \o <<"/">>

\* a directory given with -dir that exists, "g/X/"
GivenDir == <<"g","/","X","/">>
\* a directory given with -dir that does not exist, "m/X/"
MissingDir == <<"m","/","X","/">>

\* Python's None, and an unassigned local
None == <<"None">>
Unbound == <<>>
NoExc == "NoExc"
\* `response` before line 98 ran
Unanswered == "<unanswered>"
\* None where a decoded feed is expected
NoData == [none |-> TRUE]

\* str.startswith
StartsWith(s, p) == Len(s) >= Len(p) /\ SubSeq(s, 1, Len(p)) = p

\* str.replace(old, new) for a non-empty old: every non-overlapping occurrence,
\* left to right
RECURSIVE Replace(_, _, _)
Replace(s, old, new) ==
    IF s = <<>> THEN <<>>
    ELSE IF StartsWith(s, old)
         THEN new \o Replace(SubSeq(s, Len(old) + 1, Len(s)), old, new)
         ELSE <<Head(s)>> \o Replace(Tail(s), old, new)

\* str.split(sep) for a one-character sep; acc is the piece being read
RECURSIVE SplitFrom(_, _, _)
SplitFrom(s, sep, acc) ==
    IF s = <<>> THEN <<acc>>
    ELSE IF Head(s) = sep
         THEN <<acc>> \o SplitFrom(Tail(s), sep, <<>>)
         ELSE SplitFrom(Tail(s), sep, Append(acc, Head(s)))

Split(s, sep) == SplitFrom(s, sep, <<>>)

\* BaseName cutting the last three characters instead of ".txt"
BaseName_cut3(file) == SubSeq(file, 1, Len(file) - 3)

\* file.replace(".txt", ""), the key of a file in the per-file map
BaseName(file) == Replace(file, S_txt, <<>>)

----------------------------------------------------------------------------
(* The environment: file system, readers, registry, tables.  The contents  *)
(* of the directory and of the registry are revealed when the command      *)
(* first looks at them: a path in neither `present` nor `absent` has not   *)
(* been looked at, and may turn out either way; once looked at it stays    *)
(* as found, also for the commands that follow.                            *)

\* directories that exist on disk
ExistingDirs == {DefaultDir, GivenDir}

\* os.path.exists(d) and os.path.isdir(d)
IsDir(d) == d \in ExistingDirs

\* position of a file in files_to_import
Positions ==
    [file \in FileNames |-> CHOOSE k \in 1..Len(files_to_import) : files_to_import[k] = file]
IndexOf(file) == Positions[file]

\* GTFSImporter.get_row_count(): the number of data lines of the file; the
\* files of the directory have 2, 0, 1, 2, ... rows, up to MaxRows
RowsOf(file) == (IndexOf(file) + 1) % (MaxRows + 1)

\* time between line 124 and line 162 for a file that is imported; the
\* imports take 1, 0, 1, ... hundredths of a second, up to MaxTick
Elapsed(file) == IndexOf(file) % (MaxTick + 1)

\* the records import_data() builds from the rows of a file, tagged with the dataset
RecordsOf(file, ds, r) == [k \in 1..RowsOf(file) |-> [dataset |-> ds, row |-> k, run |-> r]]

\* rows left in every table by an earlier import of another dataset
OldRecords == [k \in 1..OldRows |-> [dataset |-> <<"O">>, row |-> k, run |-> 0]]

\* dict[key] = value
DictSet(d, key, value) ==
    [x \in DOMAIN d \cup {key} |-> IF x = key THEN value ELSE d[x]]

EmptyDict == [x \in {} |-> 0]

\* the position of a command that has ended: at its last line, at the return
\* of line 106, at the return of line 227, by an unhandled error, by an interrupt
EndStates == {"done", "declined", "no_data", "raised", "interrupted"}

\* the persistent state as a command finds it
Snapshot ==
    [table |-> table, rt_stop_time |-> rt_stop_time, rt_trip |-> rt_trip,
     events |-> Len(events)]

Init ==
    /\ pc = "idle"
    /\ exc = NoExc
    /\ dir_option = None
    /\ dir = None
    /\ response = Unanswered
    /\ dataset = None
    /\ idx = 0
    /\ row_count = 0
    /\ attributes_of_total_rows = EmptyDict
    /\ total_time_taken = 0
    /\ file_start = 0
    /\ finish = Unbound
    /\ clock = 0
    /\ present = {}
    /\ absent = {}
    /\ registry = {}
    /\ unsupported = {}
    /\ table = [f \in FileNames |-> OldRecords]
    /\ events = <<>>
    /\ run = 0
    /\ calls = <<>>
    /\ attempted = {}
    /\ realtime_dataset = None
    /\ data = NoData
    /\ total_stop_times = 0
    /\ total_trips = 0
    /\ rt_stop_time = <<[dataset |-> <<"O">>, entity |-> 1, stop |-> 1, cycle |-> 0]>>
    /\ rt_trip = <<[dataset |-> <<"O">>, entity |-> 1, cycle |-> 0]>>
    /\ before = [table |-> table, rt_stop_time |-> rt_stop_time, rt_trip |-> rt_trip,
                 events |-> 0]

----------------------------------------------------------------------------
(* importgtfs, cli.py:87-184 *)

\* gtfs_directory_validator without the test of line 20
gtfs_directory_validator_unchecked(d) ==
    IF d # None /\ d # <<>>
    THEN d
    ELSE DefaultDir

\* gtfs_directory_validator(dir, console): the directory, or None (bare return)
gtfs_directory_validator(d) ==
    IF d # None /\ d # <<>>
    THEN IF IsDir(d) THEN d ELSE None
    ELSE DefaultDir

\* dir.split("/")[-2]
DatasetOf(d) == Split(d, "/")[Len(Split(d, "/")) - 1]

\* an unhandled error ends the command
Raise(e) == pc' = "raised" /\ exc' = e

\* lines 90-97: the command starts with -dir d (None when the option is absent);
\* a command that follows another is given the same option
StartImportGtfs(d) ==
    /\ \/ pc = "idle"
       \/ pc = "done" /\ gtfs_directory_validator(d) = dir
    /\ run < MaxRuns
    /\ run' = run + 1
    /\ before' = Snapshot
    /\ calls' = <<>>
    /\ attempted' = {}
    /\ attributes_of_total_rows' = EmptyDict
    /\ total_time_taken' = 0
    /\ finish' = Unbound
    /\ idx' = 0
    /\ row_count' = 0
    /\ file_start' = 0
    /\ dir_option' = d
    /\ response' = Unanswered
    /\ dir' = gtfs_directory_validator(d)
    /\ IF dir' = None
       THEN Raise("AttributeError") /\ dataset' = None
       ELSE IF Len(Split(dir', "/")) < 2
            THEN Raise("IndexError") /\ dataset' = None
            ELSE pc' = "prompt" /\ exc' = NoExc /\ dataset' = DatasetOf(dir')
    /\ UNCHANGED <<clock, env, table, events,
                   realtime_vars>>

\* Prompt comparing the answer without regard to case
Prompt_any_case(r) ==
    /\ pc = "prompt"
    /\ response' = r
    /\ IF r \notin {"y", "Y"}
       THEN pc' = "declined" /\ UNCHANGED idx
       ELSE pc' = "for" /\ idx' = 1
    /\ UNCHANGED <<file_start, exc, dir_option, dir, dataset, row_count, attributes_of_total_rows,
                   total_time_taken, finish, clock, env, table, events, run, before, calls,
                   attempted, realtime_vars>>

\* lines 98-121: the answer to the prompt
Prompt(r) ==
    /\ pc = "prompt"
    /\ response' = r
    /\ IF r # "y"
       THEN pc' = "declined" /\ UNCHANGED idx
       ELSE pc' = "for" /\ idx' = 1
    /\ UNCHANGED <<file_start, exc, dir_option, dir, dataset, row_count, attributes_of_total_rows,
                   total_time_taken, finish, clock, env, table, events, run, before, calls,
                   attempted,
                   realtime_vars>>

CurrentFile == files_to_import[idx]

InLoop == idx \in 1..Len(files_to_import)

\* SkipAbsent writing the row count left by the file before instead of 0
SkipAbsent_stale_row_count ==
    /\ pc = "for" /\ InLoop
    /\ ~IsDir(dir) \/ (dir \o CurrentFile) \notin present
    /\ absent' = absent \cup {dir \o CurrentFile}
    /\ file_start' = clock
    /\ attempted' = attempted \cup {CurrentFile}
    /\ attributes_of_total_rows' =
         DictSet(attributes_of_total_rows, BaseName(CurrentFile),
                 [time_taken |-> 0, row_count |-> row_count,
                  error |-> <<"does not exist", CurrentFile>>])
    /\ idx' = idx + 1
    /\ UNCHANGED <<pc, exc, dir_option, dir, response, dataset, row_count, total_time_taken, finish, clock,
                   present, registry, unsupported, table, events, run, before, calls,
                   realtime_vars>>

\* lines 123-132: os.path.isfile(dir + file) is false, the file is skipped
SkipAbsent ==
    /\ pc = "for" /\ InLoop
    /\ ~IsDir(dir) \/ (dir \o CurrentFile) \notin present
    /\ absent' = absent \cup {dir \o CurrentFile}
    /\ file_start' = clock
    /\ attempted' = attempted \cup {CurrentFile}
    /\ attributes_of_total_rows' =
         DictSet(attributes_of_total_rows, BaseName(CurrentFile),
                 [time_taken |-> 0, row_count |-> 0,
                  error |-> <<"does not exist", CurrentFile>>])
    /\ idx' = idx + 1
    /\ UNCHANGED <<pc, exc, dir_option, dir, response, dataset, row_count, total_time_taken, finish, clock,
                   present, registry, unsupported, table, events, run, before, calls,
                   realtime_vars>>

\* lines 123-136: the file exists, its reader and row count are obtained
OpenReader ==
    /\ pc = "for" /\ InLoop
    /\ IsDir(dir) /\ (dir \o CurrentFile) \notin absent
    /\ present' = present \cup {dir \o CurrentFile}
    /\ file_start' = clock
    /\ attempted' = attempted \cup {CurrentFile}
    /\ row_count' = RowsOf(CurrentFile)
    /\ pc' = "dispatch"
    /\ UNCHANGED <<exc, dir_option, dir, response, dataset, idx, attributes_of_total_rows, total_time_taken,
                   finish, clock, absent, registry, unsupported, table, events,
                   run, before, calls,
                   realtime_vars>>

\* lines 134-136: get_reader() fails on the header of the file, outside any try
OpenReaderFails ==
    /\ pc = "for" /\ InLoop
    /\ IsDir(dir) /\ (dir \o CurrentFile) \notin absent
    /\ present' = present \cup {dir \o CurrentFile}
    /\ file_start' = clock
    /\ attempted' = attempted \cup {CurrentFile}
    /\ Raise("HeaderMismatch")
    /\ UNCHANGED <<dir_option, dir, response, dataset, idx, row_count, attributes_of_total_rows,
                   total_time_taken, finish, clock, absent, registry, unsupported,
                   table, events, run, before, calls,
                   realtime_vars>>

\* Dispatch going straight to import_data(), without lines 150-158
Dispatch_to_import ==
    /\ pc = "dispatch"
    /\ CurrentFile \notin unsupported
    /\ registry' = registry \cup {CurrentFile}
    /\ pc' = "import"
    /\ UNCHANGED <<exc, dir_option, dir, response, dataset, idx, row_count, attributes_of_total_rows,
                   total_time_taken, file_start, finish, clock, present, absent,
                   unsupported, table, events, run, before, calls, attempted,
                   realtime_vars>>

\* lines 137-138, 150: imp.get_importer_for_file returns an importer
Dispatch ==
    /\ pc = "dispatch"
    /\ CurrentFile \notin unsupported
    /\ registry' = registry \cup {CurrentFile}
    /\ pc' = "clear"
    /\ UNCHANGED <<exc, dir_option, dir, response, dataset, idx, row_count, attributes_of_total_rows,
                   total_time_taken, file_start, finish, clock, present, absent,
                   unsupported, table, events, run, before, calls, attempted,
                   realtime_vars>>

\* SkipUnsupported with an except clause that does not match: the error escapes
SkipUnsupported_uncaught ==
    /\ pc = "dispatch"
    /\ CurrentFile \notin registry
    /\ Cardinality(unsupported \cup {CurrentFile}) <= MaxUnsupported
    /\ unsupported' = unsupported \cup {CurrentFile}
    /\ Raise("ValueError")
    /\ UNCHANGED <<dir_option, dir, response, dataset, idx, row_count, attributes_of_total_rows,
                   total_time_taken, file_start, finish, clock, present, absent,
                   registry, table, events, run, before, calls, attempted,
                   realtime_vars>>

\* SkipUnsupported writing its entry without the error of line 146
SkipUnsupported_no_error ==
    /\ pc = "dispatch"
    /\ CurrentFile \notin registry
    /\ Cardinality(unsupported \cup {CurrentFile}) <= MaxUnsupported
    /\ unsupported' = unsupported \cup {CurrentFile}
    /\ attributes_of_total_rows' =
         DictSet(attributes_of_total_rows, BaseName(CurrentFile),
                 [time_taken |-> 0, row_count |-> row_count])
    /\ idx' = idx + 1
    /\ pc' = "for"
    /\ UNCHANGED <<exc, dir_option, dir, response, dataset, row_count, total_time_taken,
                   file_start, finish, clock, present, absent, registry, table, events, run,
                   before, calls, attempted, realtime_vars>>

\* lines 137-148: imp.get_importer_for_file raises ValueError, the file is skipped
SkipUnsupported ==
    /\ pc = "dispatch"
    /\ CurrentFile \notin registry
    /\ Cardinality(unsupported \cup {CurrentFile}) <= MaxUnsupported
    /\ unsupported' = unsupported \cup {CurrentFile}
    /\ attributes_of_total_rows' =
         DictSet(attributes_of_total_rows, BaseName(CurrentFile),
                 [time_taken |-> 0, row_count |-> row_count,
                  error |-> <<"does not have a supported importer", CurrentFile>>])
    /\ idx' = idx + 1
    /\ pc' = "for"
    /\ UNCHANGED <<exc, dir_option, dir, response, dataset, row_count, total_time_taken, file_start, finish,
                   clock, present, absent, registry, table, events, run, before, calls,
                   attempted,
                   realtime_vars>>

\* importer.clear_table(): deletes every row of the table, whatever its dataset
clear_table(t, file) == [t EXCEPT ![file] = <<>>]

\* importer.import_data(): converts every row, then inserts all records in one batch
import_data(t, file, ds, r) == [t EXCEPT ![file] = @ \o RecordsOf(file, ds, r)]

\* importer.import_data() raising: the rows are converted before the one batch
\* insert, so a row that fails conversion, or a failed insert, inserts nothing
import_data_raises(t, file) == t

\* ClearTable without the call of clear_table()
ClearTable_skipped ==
    /\ pc = "clear"
    /\ pc' = "import"
    /\ UNCHANGED <<exc, dir_option, dir, response, dataset, idx, row_count, attributes_of_total_rows,
                   total_time_taken, file_start, finish, clock, env, table, events, run,
                   before, calls, attempted, realtime_vars>>

\* ClearTable called after import_data() instead of before it
ClearTable_misplaced ==
    /\ pc = "clear"
    /\ calls' = Append(calls, <<"clear_table", CurrentFile>>)
    /\ table' = [table EXCEPT ![CurrentFile] = before.table[CurrentFile]]
    /\ pc' = "import"
    /\ UNCHANGED <<exc, dir_option, dir, response, dataset, idx, row_count, attributes_of_total_rows,
                   total_time_taken, file_start, finish, clock, env, events, run,
                   before, attempted, realtime_vars>>

\* ClearTable emptying the table of every file instead of the current file's
ClearTable_all ==
    /\ pc = "clear"
    /\ calls' = Append(calls, <<"clear_table", CurrentFile>>)
    /\ table' = [file \in FileNames |-> <<>>]
    /\ pc' = "import"
    /\ UNCHANGED <<exc, dir_option, dir, response, dataset, idx, row_count, attributes_of_total_rows,
                   total_time_taken, file_start, finish, clock, env, events, run, before,
                   attempted, realtime_vars>>

\* lines 151-158: the table of the file is cleared
ClearTable ==
    /\ pc = "clear"
    /\ calls' = Append(calls, <<"clear_table", CurrentFile>>)
    /\ table' = clear_table(table, CurrentFile)
    /\ pc' = "import"
    /\ UNCHANGED <<exc, dir_option, dir, response, dataset, idx, row_count, attributes_of_total_rows,
                   total_time_taken, file_start, finish, clock, env, events, run, before,
                   attempted,
                   realtime_vars>>

\* line 157: clear_table() raises (the persistence layer fails), outside any try
ClearTableFails ==
    /\ pc = "clear"
    /\ calls' = Append(calls, <<"clear_table", CurrentFile>>)
    /\ Raise("PersistenceError")
    /\ UNCHANGED <<dir_option, dir, response, dataset, idx, row_count, attributes_of_total_rows,
                   total_time_taken, file_start, finish, clock, env, table, events,
                   run, before, attempted,
                   realtime_vars>>

\* ImportData without moving on to the next file: the file is processed again
ImportData_again ==
    /\ pc = "import"
    /\ calls' = Append(calls, <<"import_data", CurrentFile>>)
    /\ table' = import_data(table, CurrentFile, dataset, run)
    /\ clock' = file_start + Elapsed(CurrentFile)
    /\ finish' = <<clock'>>
    /\ total_time_taken' = total_time_taken + (clock' - file_start)
    /\ attributes_of_total_rows' =
         DictSet(attributes_of_total_rows, BaseName(CurrentFile),
                 [time_taken |-> clock' - file_start, row_count |-> row_count])
    /\ pc' = "for"
    /\ UNCHANGED <<exc, dir_option, dir, response, dataset, idx, row_count, file_start, env,
                   events, run, before, attempted, realtime_vars>>

\* ImportData with line 164 as an assignment: the total is the last file's time
ImportData_total_overwritten ==
    /\ pc = "import"
    /\ calls' = Append(calls, <<"import_data", CurrentFile>>)
    /\ table' = import_data(table, CurrentFile, dataset, run)
    /\ clock' = file_start + Elapsed(CurrentFile)
    /\ finish' = <<clock'>>
    /\ total_time_taken' = clock' - file_start
    /\ attributes_of_total_rows' =
         DictSet(attributes_of_total_rows, BaseName(CurrentFile),
                 [time_taken |-> clock' - file_start, row_count |-> row_count])
    /\ idx' = idx + 1
    /\ pc' = "for"
    /\ UNCHANGED <<exc, dir_option, dir, response, dataset, row_count, file_start, env,
                   events, run, before, attempted, realtime_vars>>

\* lines 160-169: the rows are inserted and the file's entry is written
ImportData ==
    /\ pc = "import"
    /\ calls' = Append(calls, <<"import_data", CurrentFile>>)
    /\ table' = import_data(table, CurrentFile, dataset, run)
    /\ clock' = file_start + Elapsed(CurrentFile)
    /\ finish' = <<clock'>>
    /\ total_time_taken' = total_time_taken + (clock' - file_start)
    /\ attributes_of_total_rows' =
         DictSet(attributes_of_total_rows, BaseName(CurrentFile),
                 [time_taken |-> clock' - file_start, row_count |-> row_count])
    /\ idx' = idx + 1
    /\ pc' = "for"
    /\ UNCHANGED <<exc, dir_option, dir, response, dataset, row_count, file_start, env, events, run, before,
                   attempted,
                   realtime_vars>>

\* line 160: import_data() raises, outside any try: a row fails conversion
\* (RowConversionError) or the batch insert fails; nothing is inserted
ImportDataFails(e) ==
    /\ pc = "import"
    /\ e = "RowConversionError" => RowsOf(CurrentFile) > 0
    /\ calls' = Append(calls, <<"import_data", CurrentFile>>)
    /\ table' = import_data_raises(table, CurrentFile)
    /\ Raise(e)
    /\ UNCHANGED <<dir_option, dir, response, dataset, idx, row_count, attributes_of_total_rows,
                   total_time_taken, file_start, finish, clock, env, events,
                   run, before, attempted,
                   realtime_vars>>

\* lines 172-176: the attributes of the event
RunReport ==
    [dataset |-> dataset, totals |-> attributes_of_total_rows,
     total_time_taken |-> total_time_taken]

\* importgtfs with lines 172-183 inside the for loop: the event may be emitted
\* before the last file was processed
EmitEvent_early ==
    /\ pc = "for"
    /\ events' = Append(events, [type |-> "GTFS_DATABASE_UPDATED", attributes |-> RunReport])
    /\ pc' = "print"
    /\ UNCHANGED <<exc, dir_option, dir, response, dataset, idx, row_count, attributes_of_total_rows,
                   total_time_taken, file_start, finish, clock, env, table, run, before, calls,
                   attempted, realtime_vars>>

\* lines 172-183: after the loop the event is recorded
EmitEvent ==
    /\ pc = "for" /\ ~InLoop
    /\ events' = Append(events, [type |-> "GTFS_DATABASE_UPDATED", attributes |-> RunReport])
    /\ pc' = "print"
    /\ UNCHANGED <<exc, dir_option, dir, response, dataset, idx, row_count, attributes_of_total_rows,
                   total_time_taken, file_start, finish, clock, env, table, run, before, calls,
                   attempted,
                   realtime_vars>>

\* lines 177-183: create_event_with_session raises (the persistence layer fails)
EmitEventFails ==
    /\ pc = "for" /\ ~InLoop
    /\ Raise("PersistenceError")
    /\ UNCHANGED <<dir_option, dir, response, dataset, idx, row_count, attributes_of_total_rows,
                   total_time_taken, file_start, finish, clock, env, table, events,
                   run, before, calls, attempted,
                   realtime_vars>>

\* line 184: the closing message reads `finish`, assigned only at line 162
PrintFinished ==
    /\ pc = "print"
    /\ IF finish = Unbound
       THEN Raise("UnboundLocalError")
       ELSE pc' = "done" /\ UNCHANGED exc
    /\ UNCHANGED <<dir_option, dir, response, dataset, idx, row_count, attributes_of_total_rows,
                   total_time_taken, file_start, finish, clock, env, table, events,
                   run, before, calls, attempted,
                   realtime_vars>>

\* the host process is interrupted while the command runs
Interrupt ==
    /\ pc \in {"prompt", "for", "dispatch", "clear", "import", "print"}
    /\ pc' = "interrupted"
    /\ UNCHANGED <<exc, dir_option, dir, response, dataset, idx, row_count, attributes_of_total_rows,
                   total_time_taken, file_start, finish, clock, env, table, events,
                   run, before, calls, attempted,
                   realtime_vars>>

Next ==
    \/ \E d \in {None, GivenDir, MissingDir} : StartImportGtfs(d)
    \/ \E r \in {"y", "", "n", "Y"} : Prompt(r)
    \/ SkipAbsent
    \/ OpenReader
    \/ OpenReaderFails
    \/ Dispatch
    \/ SkipUnsupported
    \/ ClearTable
    \/ ClearTableFails
    \/ ImportData
    \/ \E e \in {"RowConversionError", "PersistenceError"} : ImportDataFails(e)
    \/ EmitEvent
    \/ EmitEventFails
    \/ PrintFinished
    \/ Interrupt

Spec == Init /\ [][Next]_vars

----------------------------------------------------------------------------
(* importrealtime, cli.py:190-252, and the RealTimeImporter it drives *)

\* settings.app.GTFS_TFI_DATASET
SettingsDataset == S_TFI

\* one entity of the feed: a trip update, or a vehicle position only
Entities == {[trip_update |-> b] : b \in BOOLEAN}

\* the number of stop-time updates of the trip update at position k of a feed:
\* 1, 2, ... up to MaxStopUpdates, then 0
StopUpdatesOf(k) == k % (MaxStopUpdates + 1)

\* data['entity'] of the feeds the model fetches
Feeds == UNION {[1..n -> Entities] : n \in 0..MaxEntities}

\* RealTimeImporter.get_data(): the decoded feed, or None when the status is
\* not 200 or the body does not decode
get_data(status, decodes, feed) ==
    IF status = "200" /\ decodes THEN [entity |-> feed] ELSE NoData

\* the RTStopTime records import_stop_times() builds from entity k onwards
RECURSIVE StopTimesFrom(_, _, _, _)
StopTimesFrom(feed, k, ds, c) ==
    IF k > Len(feed) THEN <<>>
    ELSE [j \in 1..(IF feed[k].trip_update THEN StopUpdatesOf(k) ELSE 0) |->
             [dataset |-> ds, entity |-> k, stop |-> j, cycle |-> c]]
         \o StopTimesFrom(feed, k + 1, ds, c)

\* the RTTrip records import_trips() builds from entity k onwards
RECURSIVE TripsFrom(_, _, _, _)
TripsFrom(feed, k, ds, c) ==
    IF k > Len(feed) THEN <<>>
    ELSE (IF feed[k].trip_update
          THEN <<[dataset |-> ds, entity |-> k, cycle |-> c]>>
          ELSE <<>>)
         \o TripsFrom(feed, k + 1, ds, c)

\* lines 193-219: the command starts with -dataset ds (None when absent)
StartImportRealtime(ds) ==
    /\ pc \in {"idle"} \cup EndStates
    /\ run < MaxRuns
    /\ run' = run + 1
    /\ before' = Snapshot
    /\ calls' = <<>>
    /\ exc' = NoExc
    /\ realtime_dataset' = IF ds # None /\ ds # <<>> THEN ds ELSE SettingsDataset
    /\ data' = NoData
    /\ total_stop_times' = 0
    /\ total_trips' = 0
    /\ pc' = "get_data"
    /\ UNCHANGED <<clock, events, rt_stop_time, rt_trip, static_vars>>

\* GetData without the test of line 223
GetData_unchecked(status, decodes, feed) ==
    /\ pc = "get_data"
    /\ data' = get_data(status, decodes, feed)
    /\ pc' = "clear_table_stop_trip"
    /\ UNCHANGED <<exc, clock, events, run, before, calls, realtime_dataset,
                   total_stop_times, total_trips, rt_stop_time, rt_trip, static_vars>>

\* lines 221-229: the feed is fetched; without data the command returns
GetData(status, decodes, feed) ==
    /\ pc = "get_data"
    /\ data' = get_data(status, decodes, feed)
    /\ pc' = IF data' = NoData THEN "no_data" ELSE "clear_table_stop_trip"
    /\ UNCHANGED <<exc, clock, events, run, before, calls, realtime_dataset, total_stop_times,
                   total_trips, rt_stop_time, rt_trip, static_vars>>

\* importrealtime without its line 231: the tables are not emptied before the imports
ClearTableStopTrip_skipped ==
    /\ pc = "clear_table_stop_trip"
    /\ pc' = "import_stop_times"
    /\ UNCHANGED <<exc, clock, events, run, before, calls, realtime_dataset, data,
                   total_stop_times, total_trips, rt_stop_time, rt_trip, static_vars>>

\* line 231: both realtime tables are emptied
ClearTableStopTrip ==
    /\ pc = "clear_table_stop_trip"
    /\ calls' = Append(calls, "clear_table_stop_trip")
    /\ rt_stop_time' = <<>>
    /\ rt_trip' = <<>>
    /\ pc' = "import_stop_times"
    /\ UNCHANGED <<exc, clock, events, run, before, realtime_dataset, data, total_stop_times,
                   total_trips, static_vars>>

\* line 231: clear_table_stop_trip() raises
ClearTableStopTripFails ==
    /\ pc = "clear_table_stop_trip"
    /\ calls' = Append(calls, "clear_table_stop_trip")
    /\ Raise("PersistenceError")
    /\ UNCHANGED <<clock, events, run, before, realtime_dataset, data, total_stop_times,
                   total_trips, rt_stop_time, rt_trip, static_vars>>

\* lines 232-233: the stop-time updates are inserted and counted
ImportStopTimes ==
    /\ pc = "import_stop_times"
    /\ calls' = Append(calls, "import_stop_times")
    /\ rt_stop_time' = rt_stop_time \o StopTimesFrom(data.entity, 1, realtime_dataset, run)
    /\ total_stop_times' = Len(StopTimesFrom(data.entity, 1, realtime_dataset, run))
    /\ pc' = "import_trips"
    /\ UNCHANGED <<exc, clock, events, run, before, realtime_dataset, data, total_trips,
                   rt_trip, static_vars>>

\* line 233: import_stop_times() raises
ImportStopTimesFails ==
    /\ pc = "import_stop_times"
    /\ calls' = Append(calls, "import_stop_times")
    /\ Raise("PersistenceError")
    /\ UNCHANGED <<clock, events, run, before, realtime_dataset, data, total_stop_times,
                   total_trips, rt_stop_time, rt_trip, static_vars>>

\* time between line 193 and line 238: a hundredth of a second per entity, up
\* to MaxTick
RealtimeElapsed(feed) == Len(feed) % (MaxTick + 1)

\* lines 235-238: the trips are inserted and counted
ImportTrips ==
    /\ pc = "import_trips"
    /\ calls' = Append(calls, "import_trips")
    /\ rt_trip' = rt_trip \o TripsFrom(data.entity, 1, realtime_dataset, run)
    /\ total_trips' = Len(TripsFrom(data.entity, 1, realtime_dataset, run))
    /\ clock' = RealtimeElapsed(data.entity)
    /\ pc' = "emit"
    /\ UNCHANGED <<exc, events, run, before, realtime_dataset, data, total_stop_times,
                   rt_stop_time, static_vars>>

\* line 236: import_trips() raises
ImportTripsFails ==
    /\ pc = "import_trips"
    /\ calls' = Append(calls, "import_trips")
    /\ Raise("PersistenceError")
    /\ UNCHANGED <<clock, events, run, before, realtime_dataset, data, total_stop_times,
                   total_trips, rt_stop_time, rt_trip, static_vars>>

\* the attributes of lines 239-244 with the two counts exchanged
RealtimeReport_swapped ==
    [dataset |-> realtime_dataset, total_trips |-> total_stop_times,
     total_stop_times |-> total_trips, time_taken |-> clock]

\* lines 239-244: the attributes of the event
RealtimeReport ==
    [dataset |-> realtime_dataset, total_trips |-> total_trips,
     total_stop_times |-> total_stop_times, time_taken |-> clock]

\* lines 245-252: the event is recorded and the command ends
EmitRealtimeEvent ==
    /\ pc = "emit"
    /\ events' = Append(events, [type |-> "REALTIME_DATABASE_UPDATED",
                                 attributes |-> RealtimeReport])
    /\ pc' = "done"
    /\ UNCHANGED <<exc, clock, run, before, calls, realtime_vars, static_vars>>

\* lines 245-251: create_event_with_session raises
EmitRealtimeEventFails ==
    /\ pc = "emit"
    /\ Raise("PersistenceError")
    /\ UNCHANGED <<clock, events, run, before, calls, realtime_vars, static_vars>>

NextRealtime ==
    \/ \E ds \in {None, <<"X">>} : StartImportRealtime(ds)
    \/ \E status \in {"200", "404"}, decodes \in BOOLEAN, feed \in Feeds :
           GetData(status, decodes, feed)
    \/ ClearTableStopTrip
    \/ ClearTableStopTripFails
    \/ ImportStopTimes
    \/ ImportStopTimesFails
    \/ ImportTrips
    \/ ImportTripsFails
    \/ EmitRealtimeEvent
    \/ EmitRealtimeEventFails

SpecRealtime == Init /\ [][NextRealtime]_vars

----------------------------------------------------------------------------
(* Properties of the static import *)

\* the user confirmed and the loop over the files began in the current command
Confirmed == idx >= 1

\* the command ended by itself: at its last line or by an unhandled error
Ended == pc \in {"done", "raised"}

\* the number of events the current command has recorded
Emissions == Len(events) - before.events

\* the file operations invoked for a file by the current command
CallsFor(file) == { k \in 1..Len(calls) : calls[k][2] = file }

\* the entry of a file in the per-file map
\* the key of every file of the list, file.replace(".txt", "")
KeyOf == [file \in FileNames |-> BaseName(file)]

HasEntry(file) == KeyOf[file] \in DOMAIN attributes_of_total_rows
Entry(file) == attributes_of_total_rows[KeyOf[file]]

\* C1: in a confirmed static import that has ended, every file of the list
\* was attempted, whatever happened to the files before it (skipped or failed).
C1_EveryFileAttempted ==
    (Confirmed /\ Ended) => attempted = FileNames

\* C2: an error raised by clear_table() or import_data() for a file (here the
\* file's own error, a row that fails conversion) is caught: it does not end
\* the command, the file gets a report entry carrying an error, and a command
\* that has ended has recorded its GTFS_DATABASE_UPDATED event.
C2_FileErrorCaught ==
    exc = "RowConversionError"
        => /\ pc # "raised"
           /\ HasEntry(CurrentFile) /\ "error" \in DOMAIN Entry(CurrentFile)
           /\ Ended => Emissions = 1

\* C3: every confirmed static import ends after exactly one transition per
\* file of the list (eight entries written) and one emission of the report,
\* whether files are absent, unsupported, failing or imported.
C3_EightTransitionsOneEmission ==
    (Confirmed /\ Ended /\ exc \notin {"PersistenceError", "UnboundLocalError"})
        => /\ Cardinality(DOMAIN attributes_of_total_rows) = Len(files_to_import)
           /\ Emissions = 1

\* C4: whatever subset of the files is present, a confirmed static import
\* that went through the whole list reaches its normal end, or is ended by a
\* failure of the persistence layer, and by no other unhandled error.
C4_NormalEndOrPersistenceFailure ==
    (Confirmed /\ ~InLoop /\ pc = "raised") => exc = "PersistenceError"

\* the keys the per-file map of a completed run is to have
BaseNames ==
    {S_agency, S_calendar, S_calendar_dates, S_routes, S_stops, S_trips,
     S_stop_times, S_shapes}

\* the file was imported by the current command: its entry carries no error
Completed(file) == HasEntry(file) /\ "error" \notin DOMAIN Entry(file)

\* C5: the per-file map of every recorded GTFS_DATABASE_UPDATED event, and the
\* map of the command once it has recorded its event, has exactly the eight
\* base names (file names without ".txt") as keys.
C5_ReportHasEveryFile ==
    /\ \A k \in 1..Len(events) : DOMAIN events[k].attributes.totals = BaseNames
    /\ Emissions = 1 =>
          /\ DOMAIN attributes_of_total_rows = BaseNames
          /\ Cardinality(DOMAIN attributes_of_total_rows) = Len(files_to_import)

\* a completed run in which files were skipped as absent, skipped as
\* unsupported, and imported
C5_Witness ==
    /\ pc = "done"
    /\ Emissions = 1
    /\ \E f \in FileNames : (dir \o f) \in absent
    /\ \E f \in FileNames : f \in unsupported
    /\ \E f \in FileNames : Completed(f)

\* the entry of a file skipped because it does not exist
AbsentEntry(file) ==
    [time_taken |-> 0, row_count |-> 0, error |-> <<"does not exist", file>>]

LastTotals == events[Len(events)].attributes.totals

\* C6: a file found absent is skipped with a 'does not exist' entry of row
\* count 0 and time 0, no clear_table() or import_data() is invoked for it and
\* its table keeps the rows it had when the command started; with agency.txt
\* alone present (and in the registry), the recorded event carries agency's
\* row count without an error and a 'does not exist' entry for every other file.
C6_AbsentFileSkipped ==
    /\ \A f \in FileNames :
          (f \in attempted /\ (dir \o f) \in absent)
              => /\ HasEntry(f) /\ Entry(f) = AbsentEntry(f)
                 /\ CallsFor(f) = {}
                 /\ table[f] = before.table[f]
    /\ (Emissions = 1 /\ present = {dir \o files_to_import[1]}
           /\ files_to_import[1] \in registry)
          => /\ DOMAIN LastTotals[S_agency] = {"time_taken", "row_count"}
             /\ LastTotals[S_agency].row_count = RowsOf(files_to_import[1])
             /\ \A f \in FileNames \ {files_to_import[1]} :
                   LastTotals[BaseName(f)] = AbsentEntry(f)

\* a completed run of a directory that holds agency.txt alone, with two rows
C6_Witness ==
    /\ pc = "done"
    /\ Emissions = 1
    /\ present = {dir \o files_to_import[1]}
    /\ LastTotals[S_agency].row_count = 2
    /\ table[files_to_import[1]] = RecordsOf(files_to_import[1], dataset, run)
    /\ table[files_to_import[2]] = OldRecords

\* C7, in every state: a file the registry refused in the current command has
\* an entry carrying the 'no supported importer' error, no clear_table() or
\* import_data() was invoked for it and its table is as the command found it.
C7_UnsupportedState ==
    \A f \in FileNames :
        (Confirmed /\ f \in unsupported /\ (dir \o f) \in present /\ idx > IndexOf(f))
            => /\ HasEntry(f)
               /\ "error" \in DOMAIN Entry(f)
               /\ Entry(f).error = <<"does not have a supported importer", f>>
               /\ CallsFor(f) = {}
               /\ table[f] = before.table[f]

\* C7, in every step: when the registry refuses the current file, no error
\* escapes and the loop goes on to the next file of the list.
C7_UnsupportedStep ==
    (pc = "dispatch" /\ pc' # "interrupted" /\ CurrentFile \in unsupported')
        => /\ pc' = "for"
           /\ exc' = NoExc
           /\ idx' = idx + 1
           /\ table' = table
           /\ calls' = calls

\* C7: a file the registry has no importer for is skipped with an error entry,
\* its table is untouched, and the run continues with the next file.
C7_UnsupportedFileSkipped == []C7_UnsupportedState /\ [][C7_UnsupportedStep]_vars

\* a file was refused by the registry and a later file was imported
C7_Witness ==
    \E f, g \in FileNames :
        /\ f \in unsupported /\ HasEntry(f) /\ "error" \in DOMAIN Entry(f)
        /\ IndexOf(g) > IndexOf(f)
        /\ Completed(g)

\* the rows of a table without the run that wrote them
Content(rows) ==
    [k \in 1..Len(rows) |-> [dataset |-> rows[k].dataset, row |-> rows[k].row]]

\* C8: after a completed import that follows a completed import of the same
\* directory, every table holds the same rows as after the first one, and the
\* table of every imported file holds exactly the rows of the second one: no
\* row is duplicated and none survives from the first.
C8_Idempotent ==
    (pc = "done" /\ run >= 2)
        => \A f \in FileNames :
              /\ Content(table[f]) = Content(before.table[f])
              /\ Completed(f) => table[f] = RecordsOf(f, dataset, run)

\* a second completed import with an imported file of two rows and an absent file
C8_Witness ==
    /\ pc = "done" /\ run = 2
    /\ \E f \in FileNames : Completed(f) /\ Len(table[f]) = 2
    /\ \E f \in FileNames : (dir \o f) \in absent

\* import_data() of the current file raised after its clear_table() returned
ImportRaised ==
    /\ pc = "raised" /\ InLoop
    /\ calls # <<>>
    /\ calls[Len(calls)] = <<"import_data", CurrentFile>>

\* C9: when import_data() fails for a file after clear_table() ran, the table
\* of that file is empty: neither the rows it had before the run nor any row
\* of the file is in it.
C9_FailedImportLeavesTableEmpty ==
    ImportRaised => table[CurrentFile] = <<>>

\* a row of a file failed conversion, and the table held rows before the run
C9_Witness ==
    /\ ImportRaised
    /\ exc = "RowConversionError"
    /\ RowsOf(CurrentFile) = 2
    /\ before.table[CurrentFile] # <<>>

----------------------------------------------------------------------------
(* Properties of the realtime import *)

\* C10: when get_data() returned None the command has returned at line 227
\* having invoked none of clear_table_stop_trip, import_stop_times and
\* import_trips, with both realtime tables as it found them and no event recorded.
C10_NoDataNoMutation ==
    (pc \notin {"idle", "get_data"} /\ data = NoData)
        => /\ pc = "no_data"
           /\ calls = <<>>
           /\ rt_stop_time = before.rt_stop_time
           /\ rt_trip = before.rt_trip
           /\ Emissions = 0

\* a cycle without data that follows a cycle that imported trips
C10_Witness ==
    /\ pc = "no_data"
    /\ data = NoData
    /\ run = 2
    /\ Len(events) = 1
    /\ \E k \in 1..Len(rt_trip) : rt_trip[k].cycle = 1

\* the order of the three importer calls of importrealtime, lines 231-236
RealtimeOrder == <<"clear_table_stop_trip", "import_stop_times", "import_trips">>

IsPrefix(s, t) == Len(s) <= Len(t) /\ \A k \in 1..Len(s) : s[k] = t[k]

\* the entities of a feed that carry a trip update
TripUpdates(feed) == { k \in DOMAIN feed : feed[k].trip_update }

\* the (entity, stop) pairs of a feed's stop-time updates
StopUpdates(feed) ==
    { <<k, j>> : k \in TripUpdates(feed), j \in 1..MaxStopUpdates } \cap
    { kj \in (DOMAIN feed) \X (1..MaxStopUpdates) : kj[2] <= StopUpdatesOf(kj[1]) }

\* C11: in a realtime run that fetched a feed, clear_table_stop_trip() is called
\* once and before import_stop_times() and import_trips(); once both imports
\* have returned, the two realtime tables hold exactly one record per update of
\* the current feed, all of this cycle, and no record of an earlier cycle.
C11_ClearedOnceBeforeImports ==
    data # NoData =>
        /\ IsPrefix(calls, RealtimeOrder)
        /\ pc \in {"emit", "done"} =>
            /\ calls = RealtimeOrder
            /\ \A k \in 1..Len(rt_trip) :
                   rt_trip[k].cycle = run /\ rt_trip[k].dataset = realtime_dataset
            /\ \A k \in 1..Len(rt_stop_time) :
                   rt_stop_time[k].cycle = run /\ rt_stop_time[k].dataset = realtime_dataset
            /\ { rt_trip[k].entity : k \in 1..Len(rt_trip) } = TripUpdates(data.entity)
            /\ Len(rt_trip) = Cardinality(TripUpdates(data.entity))
            /\ { <<rt_stop_time[k].entity, rt_stop_time[k].stop>> : k \in 1..Len(rt_stop_time) }
                   = StopUpdates(data.entity)
            /\ Len(rt_stop_time) = Cardinality(StopUpdates(data.entity))

\* a second realtime cycle completed over tables that held the first cycle's records
C11_Witness ==
    /\ pc = "done"
    /\ run = 2
    /\ data # NoData
    /\ before.rt_trip # <<>>
    /\ before.rt_stop_time # <<>>
    /\ \A k \in 1..Len(before.rt_trip) : before.rt_trip[k].cycle = 1
    /\ rt_trip # <<>>
    /\ rt_stop_time # <<>>

\* the event emitted last
LastEvent == events[Len(events)]

\* C12: a static import run hands its report to the Event Notifier at most once,
\* as a GTFS_DATABASE_UPDATED event, and only when every one of the eight files
\* has its entry; no event exists while the loop is still at work; the entries
\* of the report are those of the emitted event ever after; a run that ends
\* normally has emitted exactly one event.
C12_ReportEmittedOnceAfterAllFiles ==
    /\ Emissions <= 1
    /\ pc \in {"prompt", "for", "dispatch", "clear", "import", "declined"} => Emissions = 0
    /\ Emissions = 1 =>
        /\ LastEvent.type = "GTFS_DATABASE_UPDATED"
        /\ ~InLoop
        /\ \A file \in FileNames : HasEntry(file)
        /\ LastEvent.attributes.totals = attributes_of_total_rows
        /\ LastEvent.attributes.dataset = dataset
        /\ LastEvent.attributes.total_time_taken = total_time_taken
    /\ pc = "done" => Emissions = 1

\* a run ended normally after emitting its report, with completed and skipped files
C12_Witness ==
    /\ pc = "done"
    /\ Emissions = 1
    /\ \E file \in FileNames : Completed(file)
    /\ \E file \in FileNames : HasEntry(file) /\ ~Completed(file)

\* the command ended inside the for loop: interrupted, or left by an escaping error
EndedMidRun == pc \in {"interrupted", "raised"} /\ Confirmed /\ InLoop

\* C13: when a static run is interrupted or left by an error while a file is in
\* progress, no event of the run exists; the table of every Completed file holds
\* exactly the rows this run inserted; the table of the file in progress is as
\* before the run, empty, or fully inserted; the table of every file not yet
\* reached is as before the run.
C13_AbortedRunLeavesNoReport ==
    EndedMidRun =>
        /\ Emissions = 0
        /\ \A file \in FileNames :
            /\ Completed(file) => table[file] = RecordsOf(file, dataset, run)
            /\ file = CurrentFile =>
                   table[file] \in {before.table[file], <<>>, RecordsOf(file, dataset, run)}
            /\ IndexOf(file) > IndexOf(CurrentFile) => table[file] = before.table[file]

\* a run interrupted after it completed a file and emptied the table of the next
C13_Witness ==
    /\ pc = "interrupted"
    /\ Confirmed /\ InLoop
    /\ \E file \in FileNames : Completed(file) /\ table[file] # <<>>
    /\ table[CurrentFile] = <<>>
    /\ before.table[CurrentFile] # <<>>
    /\ idx < Len(files_to_import)

\* C14: a realtime run whose feed was fetched and whose two imports returned emits
\* exactly one REALTIME_DATABASE_UPDATED event, after the three importer calls;
\* its attributes carry the configured dataset, the number of trips import_trips()
\* returned and the number of stop-time updates import_stop_times() returned; a
\* run in which the clear or an import raised, or that fetched no feed, emits none.
C14_RealtimeEventAfterImports ==
    /\ Emissions <= 1
    /\ pc # "done" => Emissions = 0
    /\ pc = "done" =>
        /\ Emissions = 1
        /\ calls = RealtimeOrder
        /\ LastEvent.type = "REALTIME_DATABASE_UPDATED"
        /\ LastEvent.attributes.dataset = realtime_dataset
        /\ LastEvent.attributes.total_trips = Cardinality(TripUpdates(data.entity))
        /\ LastEvent.attributes.total_trips = Len(rt_trip)
        /\ LastEvent.attributes.total_stop_times = Cardinality(StopUpdates(data.entity))
        /\ LastEvent.attributes.total_stop_times = Len(rt_stop_time)

\* a realtime run that reported two trips and one stop-time update
C14_Witness ==
    /\ pc = "done"
    /\ Emissions = 1
    /\ LastEvent.attributes.total_trips = 2
    /\ LastEvent.attributes.total_stop_times = 1
    /\ calls = RealtimeOrder

\* C15: the files of a static run are processed one after the other in the order
\* agency, calendar, calendar_dates, routes, stops, trips, stop_times, shapes:
\* every import_data() directly follows the clear_table() of the same file,
\* every clear_table() after the first directly follows the import_data() of an
\* earlier file, every file before the current one has its entry, and no file
\* after the current one was looked at, cleared or imported.
C15_FilesInFixedOrder ==
    /\ files_to_import = <<S_agency \o S_txt, <<"c","a","l","e","n","d","a","r">> \o S_txt,
                           <<"c","a","l","e","n","d","a","r","_","d","a","t","e","s">> \o S_txt,
                           <<"r","o","u","t","e","s">> \o S_txt, <<"s","t","o","p","s">> \o S_txt,
                           <<"t","r","i","p","s">> \o S_txt,
                           <<"s","t","o","p","_","t","i","m","e","s">> \o S_txt,
                           <<"s","h","a","p","e","s">> \o S_txt>>
    /\ \A k \in 1..Len(calls) :
        /\ calls[k][1] = "import_data" =>
               k > 1 /\ calls[k - 1] = <<"clear_table", calls[k][2]>>
        /\ (calls[k][1] = "clear_table" /\ k > 1) =>
               /\ calls[k - 1][1] = "import_data"
               /\ IndexOf(calls[k - 1][2]) < IndexOf(calls[k][2])
        /\ IndexOf(calls[k][2]) <= idx
    /\ ~Confirmed => calls = <<>> /\ attempted = {}
    /\ Confirmed =>
        \A file \in FileNames :
            /\ IndexOf(file) < idx => HasEntry(file) /\ file \in attempted
            /\ IndexOf(file) > idx =>
                   ~HasEntry(file) /\ file \notin attempted /\ CallsFor(file) = {}
            /\ (IndexOf(file) = idx /\ pc = "import") =>
                   calls # <<>> /\ calls[Len(calls)] = <<"clear_table", file>>

\* a finished run that cleared and imported two files with a skipped file between
C15_Witness ==
    /\ pc = "done"
    /\ \E i, j, k \in 1..Len(files_to_import) :
        /\ i < j /\ j < k
        /\ Completed(files_to_import[i])
        /\ HasEntry(files_to_import[j]) /\ ~Completed(files_to_import[j])
        /\ Completed(files_to_import[k])
        /\ CallsFor(files_to_import[i]) # {} /\ CallsFor(files_to_import[k]) # {}

\* the calls of one importer operation for a file in the current command
CallsOf(op, file) == { k \in 1..Len(calls) : calls[k] = <<op, file>> }

\* C16, in every state: clear_table() and import_data() were each invoked at most
\* once for every file in the current run, and a file with an entry lies before
\* the loop's current position.
C16_AtMostOnceState ==
    \A file \in FileNames :
        /\ Cardinality(CallsOf("clear_table", file)) <= 1
        /\ Cardinality(CallsOf("import_data", file)) <= 1
        /\ HasEntry(file) => IndexOf(file) < idx

\* C16, in every step of one run: a file that has its entry keeps that entry
\* unchanged, a file that was looked at stays looked at, and the loop never
\* moves back.
C16_AtMostOnceStep ==
    run' = run =>
        /\ idx' >= idx
        /\ attempted \subseteq attempted'
        /\ \A file \in FileNames :
               HasEntry(file) =>
                   /\ KeyOf[file] \in DOMAIN attributes_of_total_rows'
                   /\ attributes_of_total_rows'[KeyOf[file]] = Entry(file)

\* C16: every file reaches one terminal state per run and is never retried.
C16_FileNeverRetried == []C16_AtMostOnceState /\ [][C16_AtMostOnceStep]_vars

\* a second run over the same directory cleared and imported a file once more,
\* once in that run
C16_Witness ==
    /\ run = 2
    /\ pc = "done"
    /\ \E file \in FileNames :
        /\ Cardinality(CallsOf("clear_table", file)) = 1
        /\ Cardinality(CallsOf("import_data", file)) = 1
        /\ Completed(file)
    /\ \E file \in FileNames : HasEntry(file) /\ ~Completed(file)

\* C17: once the prompt was answered with anything other than exactly 'y', the
\* command has ended without looking at, clearing or importing any file and
\* without emitting an event, and every table is as the command found it.
C17_DeclinedLeavesNoTrace ==
    response \notin {"y", Unanswered} =>
        /\ pc = "declined"
        /\ ~Confirmed
        /\ attempted = {}
        /\ calls = <<>>
        /\ attributes_of_total_rows = EmptyDict
        /\ Emissions = 0
        /\ table = before.table
        /\ Len(events) = before.events

\* the prompt was answered 'Y' and the command ended
C17_Witness ==
    /\ response = "Y"
    /\ pc = "declined"
    /\ dataset # None

\* the -dir option was given
DirGiven == dir_option # None /\ dir_option # <<>>

\* C18: a command given a directory that does not exist, or is not a directory,
\* has stopped before the prompt was answered and before any file was looked at:
\* no clear_table(), no import_data(), no event, every table as it was; a command
\* given no directory uses './gtfs_data/TFI/', takes 'TFI' as its dataset and
\* goes on to the prompt.
C18_DirectoryValidated ==
    run >= 1 =>
        /\ (DirGiven /\ ~IsDir(dir_option)) =>
            /\ pc = "raised"
            /\ response = Unanswered
            /\ ~Confirmed
            /\ attempted = {}
            /\ calls = <<>>
            /\ Emissions = 0
            /\ table = before.table
        /\ ~DirGiven =>
            /\ dir = <<".","/","g","t","f","s","_","d","a","t","a","/","T","F","I","/">>
            /\ dataset = <<"T","F","I">>
            /\ pc = "raised" => Confirmed

\* a command given a directory that does not exist has stopped
C18_Witness ==
    /\ run = 1
    /\ dir_option = MissingDir
    /\ ~IsDir(dir_option)
    /\ pc = "raised"
    /\ exc = "AttributeError"

\* the sum of the time_taken of the entries of a per-file map under the given keys
RECURSIVE SumTimeTaken(_, _)
SumTimeTaken(d, keys) ==
    IF keys = {} THEN 0
    ELSE LET key == CHOOSE x \in keys : TRUE
         IN d[key].time_taken + SumTimeTaken(d, keys \ {key})

\* C19: the total time taken is the sum of the time taken of all entries of the
\* per-file map, in every state of a run and in the report of the emitted event;
\* an entry with an error counts 0, and the total is 0 while no file is Completed.
\* Times are whole hundredths of a second, the unit of round(..., 2).
C19_TotalIsSumOfEntries ==
    /\ total_time_taken =
           SumTimeTaken(attributes_of_total_rows, DOMAIN attributes_of_total_rows)
    /\ \A file \in FileNames :
           (HasEntry(file) /\ ~Completed(file)) => Entry(file).time_taken = 0
    /\ (\A file \in FileNames : ~Completed(file)) => total_time_taken = 0
    /\ Emissions = 1 =>
        /\ LastEvent.attributes.total_time_taken =
               SumTimeTaken(LastEvent.attributes.totals, DOMAIN LastEvent.attributes.totals)
        /\ DOMAIN LastEvent.attributes.totals = BaseNames

\* a reported run in which two files took time and another file was skipped
C19_Witness ==
    /\ Emissions = 1
    /\ pc = "done"
    /\ LastEvent.attributes.total_time_taken >= 2
    /\ \E f, g \in FileNames :
        /\ f # g
        /\ Completed(f) /\ Entry(f).time_taken > 0
        /\ Completed(g) /\ Entry(g).time_taken > 0
    /\ \E file \in FileNames : HasEntry(file) /\ ~Completed(file)

\* clear_table() and import_data() were both invoked for the file and returned:
\* the loop went past the file after the two calls
BothReturned(file) ==
    /\ CallsOf("clear_table", file) # {}
    /\ CallsOf("import_data", file) # {}
    /\ IndexOf(file) < idx

\* C20: in every state of a static run, an entry of the per-file map carries an
\* error exactly when clear_table() and import_data() did not both return for
\* its file; an entry without error has the row count the reader gave for the
\* file, and an entry with an error has time taken 0.
C20_ErrorIffNotCompleted ==
    \A file \in FileNames :
        HasEntry(file) =>
            /\ ("error" \in DOMAIN Entry(file)) <=> ~BothReturned(file)
            /\ "error" \notin DOMAIN Entry(file) =>
                /\ BothReturned(file)
                /\ Entry(file).row_count = RowsOf(file)
                /\ file \in registry
                /\ (dir \o file) \in present
            /\ "error" \in DOMAIN Entry(file) =>
                /\ CallsFor(file) = {}
                /\ Entry(file).error \in {<<"does not exist", file>>,
                                          <<"does not have a supported importer", file>>}

\* a map with an entry of each kind: imported with rows, absent, and unsupported
C20_Witness ==
    \E f, g, h \in FileNames :
        /\ HasEntry(f) /\ "error" \notin DOMAIN Entry(f) /\ Entry(f).row_count = MaxRows
        /\ HasEntry(g) /\ "error" \in DOMAIN Entry(g)
        /\ Entry(g).error = <<"does not exist", g>>
        /\ HasEntry(h) /\ "error" \in DOMAIN Entry(h)
        /\ Entry(h).error = <<"does not have a supported importer", h>>

====
